---- MODULE Spec2Model ----
(***************************************************************************)
(* The client-side resilience layer of thriving-api-python:                *)
(*   TokenBucket / RateLimiter   (src/src/thriving_api/rate_limiter.py)    *)
(*   BaseClient._make_request_with_retries and _handle_response_error      *)
(*                               (src/src/thriving_api/base_client.py)     *)
(*                                                                         *)
(* Time.  Clock readings are integers in ticks of 0.1 s (the fallback      *)
(* sleep of RateLimiter.acquire).  Token balances and refill rates are     *)
(* Python floats; they are kept here as exact fixed-point integers:        *)
(*   refill_rate  is in units of 1/RateScale  tokens per second,           *)
(*   tokens       is in units of 1/TokenScale tokens,                      *)
(* so that tokens + elapsed * refill_rate is exact for every rate          *)
(* requests_per_second * 0.8^c that the limiter can set with               *)
(* requests_per_second <= 3.                                               *)
(* An Optional[int] is <<>> (None) or <<v>>.                               *)
(***************************************************************************)
EXTENDS Integers, Sequences, FiniteSets, TLC

VARIABLES
    now,                  \* the reading of time.time() / the event loop's clock, in ticks
    rate_limiter,         \* the RateLimiter object (with its TokenBucket and RateLimitInfo)
    enable_rate_limiting, \* BaseClient: whether self.rate_limiter is not None
    max_retries,          \* BaseClient.max_retries
    stats,                \* BaseClient.stats
    transport,            \* the set of replies the (mock) transport may give to an attempt
    start_at,             \* per logical request: the clock reading at which it is launched
    pc,                   \* per logical request: where its coroutine is suspended
    attempt,              \* per logical request: the loop variable of the retry loop
    wake,                 \* per logical request: when its pending asyncio.sleep ends
    last_exception,       \* per logical request: the local last_exception
    result,               \* per logical request: what execute() returned or raised
    reply,                \* per logical request: the reply its latest attempt received
    held,                 \* per logical request: the threading.Lock objects its coroutine holds
    snapshot,             \* the dictionary the caller's latest get_stats() call returned
    acquired,             \* history: the clock readings at which acquire() has returned
    frame                 \* per thread: the refill_rate its running consume() has read

vars == <<now, rate_limiter, enable_rate_limiting, max_retries, stats, transport,
          start_at, pc, attempt, wake, last_exception, result, reply, held,
          snapshot, acquired, frame>>

clientVars == <<enable_rate_limiting, max_retries, stats, transport,
                start_at, pc, attempt, wake, last_exception, result, reply, held,
                snapshot, acquired, frame>>

-----------------------------------------------------------------------------
(* Bounds of the model *)

\* the clock stops at MaxTime seconds
MaxTime == 8
\* handle_rate_limit_response is not called directly once the count is here
MaxThrottle == 4
\* the largest max_retries a client is configured with
MaxRetries == 2
\* the largest n of a direct consume(n)
MaxConsume == 2
\* the largest reading, in seconds, of the clock under the directly driven limiter
MaxClock == 3
\* a lone caller makes at most MaxAcquires acquire() calls
MaxAcquires == 4

\* the clock of the lone caller stops at MaxWindowClock seconds
MaxWindowClock == 140

\* the transport answers (or times out) within MaxLatency seconds
MaxLatency == 0

-----------------------------------------------------------------------------
(* Units *)

TicksPerSecond == 10
RateScale == 10^4
TokenScale == TicksPerSecond * RateScale

None == <<>>
Some(v) == <<v>>
\* Python truthiness of an Optional[int]: None and 0 are falsy
Truthy(o) == o # <<>> /\ o[1] # 0

Min(a, b) == IF a <= b THEN a ELSE b
Max(a, b) == IF a >= b THEN a ELSE b
CeilDiv(a, b) == (a + b - 1) \div b

-----------------------------------------------------------------------------
(* TokenBucket *)

\* a bucket that is created empty
TokenBucket_empty(capacity, refill_rate, t) ==
    [capacity    |-> capacity,
     tokens      |-> 0,
     refill_rate |-> refill_rate * RateScale,
     last_refill |-> t]

TokenBucket(capacity, refill_rate, t) ==
    [capacity    |-> capacity,
     tokens      |-> capacity * TokenScale,
     refill_rate |-> refill_rate * RateScale,
     last_refill |-> t]

\* the balance after the refill step of consume at clock reading t
Refilled(b, t) ==
    Min(b.capacity * TokenScale, b.tokens + (t - b.last_refill) * b.refill_rate)

\* a consume that refills and reports success but never deducts
consume_no_deduct(b, t, n) ==
    [ok     |-> Refilled(b, t) >= n * TokenScale,
     bucket |-> [b EXCEPT !.tokens = Refilled(b, t), !.last_refill = t]]

\* a consume that deducts whether or not the balance suffices
consume_deduct_always(b, t, n) ==
    [ok     |-> Refilled(b, t) >= n * TokenScale,
     bucket |-> [b EXCEPT !.tokens = Refilled(b, t) - n * TokenScale, !.last_refill = t]]

\* TokenBucket.consume(n) at clock reading t: the returned bool and the bucket after
consume(b, t, n) ==
    LET refilled == Refilled(b, t)
        ok == refilled >= n * TokenScale
    IN  [ok     |-> ok,
         bucket |-> [b EXCEPT !.tokens = IF ok THEN refilled - n * TokenScale ELSE refilled,
                              !.last_refill = t]]

\* a wait_time that answers one second whenever the balance is short
wait_time_one_second(b, n) ==
    IF b.tokens >= n * TokenScale THEN 0 ELSE TicksPerSecond

\* a wait estimate that is half of what the refill needs
wait_time_half(b, n) ==
    IF b.tokens >= n * TokenScale THEN 0
    ELSE CeilDiv(n * TokenScale - b.tokens, b.refill_rate) \div 2

\* TokenBucket.wait_time(n), in ticks, rounded up to the next tick
wait_time(b, n) ==
    IF b.tokens >= n * TokenScale THEN 0
    ELSE CeilDiv(n * TokenScale - b.tokens, b.refill_rate)

-----------------------------------------------------------------------------
(* RateLimiter *)

RateLimitInfo(requests_per_second, burst_limit) ==
    [requests_per_second |-> requests_per_second,
     burst_limit         |-> burst_limit,
     remaining_requests  |-> None,
     reset_time          |-> None,
     retry_after         |-> None]

RateLimiter(requests_per_second, burst_limit, adaptive, t) ==
    [adaptive                |-> adaptive,
     rate_limit_info         |-> RateLimitInfo(requests_per_second, burst_limit),
     token_bucket            |-> TokenBucket(burst_limit, requests_per_second, t),
     recent_requests         |-> <<>>,
     consecutive_rate_limits |-> 0]

\* min(60, 2 ** n), in seconds
Backoff(n) == Min(60, 2^n)

\* a reduced rate without the floor of 1 request per second
ReducedRate_no_floor(requests_per_second, c) ==
    (requests_per_second * 8^c * RateScale) \div 10^c

\* max(1, requests_per_second * 0.8 ** c), in units of 1/RateScale
ReducedRate(requests_per_second, c) ==
    IF requests_per_second * 8^c <= 10^c THEN RateScale
    ELSE requests_per_second * 8^c * (RateScale \div 10^c)

\* the configured baseline, in units of 1/RateScale
Baseline(L) == L.rate_limit_info.requests_per_second * RateScale

\* a penalty that never lowers the rate
penalize_no_decay(L, retry_after) ==
    LET c == L.consecutive_rate_limits + 1
    IN  [wait_time |-> IF Truthy(retry_after) THEN retry_after[1]
                       ELSE IF Truthy(L.rate_limit_info.retry_after)
                            THEN L.rate_limit_info.retry_after[1]
                            ELSE Backoff(c),
         limiter   |-> [L EXCEPT !.consecutive_rate_limits = c]]

\* a penalty whose decay is applied to the rate the bucket has, not to the baseline
penalize_compounding(L, retry_after) ==
    LET c == L.consecutive_rate_limits + 1
    IN  [wait_time |-> IF Truthy(retry_after) THEN retry_after[1]
                       ELSE IF Truthy(L.rate_limit_info.retry_after)
                            THEN L.rate_limit_info.retry_after[1]
                            ELSE Backoff(c),
         limiter   |-> [L EXCEPT !.consecutive_rate_limits = c,
                                 !.token_bucket.refill_rate =
                                     IF L.adaptive /\ c > 1
                                     THEN Max(RateScale, (@ * 8^c) \div 10^c)
                                     ELSE @]]

\* RateLimiter.handle_rate_limit_response(retry_after): the returned wait (seconds)
\* and the limiter after
handle_rate_limit_response(L, retry_after) ==
    LET c == L.consecutive_rate_limits + 1
        wait == IF Truthy(retry_after) THEN retry_after[1]
                ELSE IF Truthy(L.rate_limit_info.retry_after)
                     THEN L.rate_limit_info.retry_after[1]
                     ELSE Backoff(c)
    IN  [wait_time |-> wait,
         limiter   |-> [L EXCEPT !.consecutive_rate_limits = c,
                                 !.token_bucket.refill_rate =
                                     IF L.adaptive /\ c > 1
                                     THEN ReducedRate(L.rate_limit_info.requests_per_second, c)
                                     ELSE @]]

\* a reset that clears the count and leaves the reduced rate in place
reset_count_only(L) ==
    [L EXCEPT !.consecutive_rate_limits = 0]

\* a reset that also forgets the stored retry_after
reset_clears_retry_after(L) ==
    IF L.consecutive_rate_limits > 0
    THEN [L EXCEPT !.consecutive_rate_limits = 0,
                   !.token_bucket.refill_rate = Baseline(L),
                   !.rate_limit_info.retry_after = None]
    ELSE L

\* RateLimiter.reset_rate_limit_tracking()
reset_rate_limit_tracking(L) ==
    IF L.consecutive_rate_limits > 0
    THEN [L EXCEPT !.consecutive_rate_limits = 0,
                   !.token_bucket.refill_rate = Baseline(L)]
    ELSE L

(* Header values: <<>> when the header is absent, <<"int", v>> when its text
   is the decimal integer v, <<"bad">> when its text is not a number. *)
Absent == <<>>
IntHeader(v) == <<"int", v>>
BadHeader == <<"bad">>

\* int(h) / float(h) of a present header: the value, or None when ValueError is raised
Parsed(h) == IF h[1] = "int" THEN Some(h[2]) ELSE None

Headers(remaining, reset, retry_after, request_id) ==
    [x_ratelimit_remaining |-> remaining,
     x_ratelimit_reset     |-> reset,
     retry_after           |-> retry_after,
     x_request_id          |-> request_id]

\* a field that a malformed header clears instead of leaving alone
Observed_overwrite(old, h) ==
    IF h # Absent THEN Parsed(h) ELSE old

\* one field of update_from_response: stored when the header is present and parses
Observed(old, h) ==
    IF h # Absent /\ Parsed(h) # None THEN Parsed(h) ELSE old

\* an update_from_response that stores the headers whether or not the limiter
\* is adaptive
update_from_response_always(L, headers) ==
    [L EXCEPT
        !.rate_limit_info.remaining_requests = Observed(@, headers.x_ratelimit_remaining),
        !.rate_limit_info.reset_time         = Observed(@, headers.x_ratelimit_reset),
        !.rate_limit_info.retry_after        = Observed(@, headers.retry_after)]

\* RateLimiter.update_from_response(headers)
update_from_response(L, headers) ==
    IF ~L.adaptive THEN L
    ELSE [L EXCEPT
            !.rate_limit_info.remaining_requests = Observed(@, headers.x_ratelimit_remaining),
            !.rate_limit_info.reset_time         = Observed(@, headers.x_ratelimit_reset),
            !.rate_limit_info.retry_after        = Observed(@, headers.retry_after)]

\* the bookkeeping at the end of acquire(): append now, keep the last minute
RECURSIVE KeepRecent(_, _)
KeepRecent(s, t) ==
    IF s = <<>> THEN <<>>
    ELSE IF t - Head(s) < 60 * TicksPerSecond
         THEN <<Head(s)>> \o KeepRecent(Tail(s), t)
         ELSE KeepRecent(Tail(s), t)

\* a bookkeeping that never drops an entry
track_request_no_prune(L, t) ==
    [L EXCEPT !.recent_requests = Append(@, t)]

track_request(L, t) ==
    [L EXCEPT !.recent_requests = KeepRecent(Append(@, t), t)]

-----------------------------------------------------------------------------
(* Replies of the transport and the exceptions of exceptions.py *)

\* what self._client.request(...) gives one attempt: an httpx.Response, or an
\* exception ("connect_error": httpx.ConnectError / httpx.TimeoutException,
\* "other_error": any other Exception)
Response(status, body, headers) ==
    [kind |-> "response", status |-> status, body |-> body, headers |-> headers]

TransportError(kind) ==
    [kind |-> kind, status |-> 0, body |-> "", headers |-> Headers(Absent, Absent, Absent, Absent)]

NoReply == TransportError("none")

\* an exception object: its class and the attributes ThrivingAPIError carries
Exc(cls, status_code, retry_after, request_id, message) ==
    [cls |-> cls, status_code |-> status_code, retry_after |-> retry_after,
     request_id |-> request_id, message |-> message]

NoExc == Exc("", None, None, Absent, "")

\* an exception of the interpreter (AttributeError, UnboundLocalError, ValueError)
PyExc(cls) == Exc(cls, None, None, Absent, "")

\* APIConnectionError(f"Connection error: {e}")
APIConnectionError == Exc("APIConnectionError", None, None, Absent, "Connection error")

\* ThrivingAPIError(f"Unexpected error: {e}")
UnexpectedError == Exc("ThrivingAPIError", None, None, Absent, "Unexpected error")

\* response.is_success
is_success(status) == 200 <= status /\ status <= 299

\* the error message _handle_response_error reads from a body that decodes
\* ("object": a JSON object; "text": not JSON)
ErrorMessage(r) == IF r.body = "object" THEN "body field" ELSE "raw body"

\* BaseClient._handle_response_error(response): the exception it raises.
\*   body "nonobject" (JSON, not an object): error_data.get raises AttributeError;
\*   body "text" (not JSON): error_data stays unbound and the raise statement
\*     that names it raises UnboundLocalError, after int() of a 429's
\*     retry-after header raised ValueError when that header is not a number.
handle_response_error(r) ==
    LET request_id == r.headers.x_request_id
        msg == ErrorMessage(r)
        bound == r.body = "object"
    IN  IF r.body = "nonobject" THEN PyExc("AttributeError")
        ELSE IF r.status = 401
             THEN IF bound THEN Exc("AuthenticationError", Some(401), None, request_id, msg)
                  ELSE PyExc("UnboundLocalError")
        ELSE IF r.status = 402
             THEN IF bound THEN Exc("QuotaExceededError", Some(402), None, request_id, msg)
                  ELSE PyExc("UnboundLocalError")
        ELSE IF r.status = 404
             THEN IF bound THEN Exc("NotFoundError", Some(404), None, request_id, msg)
                  ELSE PyExc("UnboundLocalError")
        ELSE IF r.status = 400
             THEN IF bound THEN Exc("ValidationError", Some(400), None, request_id, msg)
                  ELSE PyExc("UnboundLocalError")
        ELSE IF r.status = 429
             THEN IF r.headers.retry_after # Absent /\ Parsed(r.headers.retry_after) = None
                  THEN PyExc("ValueError")
                  ELSE IF bound
                       THEN Exc("RateLimitError", Some(429),
                                IF r.headers.retry_after = Absent THEN None
                                ELSE Parsed(r.headers.retry_after), request_id, msg)
                       ELSE PyExc("UnboundLocalError")
        ELSE IF 500 <= r.status /\ r.status < 600
             THEN IF bound THEN Exc("ServerError", Some(r.status), None, request_id, msg)
                  ELSE PyExc("UnboundLocalError")
        ELSE IF bound THEN Exc("ThrivingAPIError", Some(r.status), None, request_id, msg)
             ELSE PyExc("UnboundLocalError")

-----------------------------------------------------------------------------
(* BaseClient._make_request_with_retries: what one attempt's reply leads to *)

\* the exception classes of the "Don't retry these errors" clause
NoRetry == {"RateLimitError", "AuthenticationError", "ValidationError", "QuotaExceededError"}

Outcome(next, seconds, exc, last, L, rate_limited, successful, failed) ==
    [next |-> next, seconds |-> seconds, exc |-> exc, last_exception |-> last,
     limiter |-> L, rate_limited |-> rate_limited, successful |-> successful,
     failed |-> failed]

\* the retrying clauses without the retry: the wrapped exception is raised at once
give_up_at_once(wrapped, a, m, L, rate_limited) ==
    Outcome("raise", 0, wrapped, wrapped, L, rate_limited, 0, 1)

\* a retrying clause that counts a failure for every failed attempt
retry_counts_failure(wrapped, a, m, L, rate_limited) ==
    IF a < m
    THEN Outcome("sleep", Backoff(a), NoExc, wrapped, L, rate_limited, 0, 1)
    ELSE Outcome("raise", 0, wrapped, wrapped, L, rate_limited, 0, 1)

\* retrying clauses that never give up
retry_forever(wrapped, a, m, L, rate_limited) ==
    Outcome("sleep", Backoff(0), NoExc, wrapped, L, rate_limited, 0, 0)

\* the two retrying except clauses (connect/timeout, and Exception), followed,
\* on the last attempt, by the code after the loop
retry_or_give_up(wrapped, a, m, L, rate_limited) ==
    IF a < m
    THEN Outcome("sleep", Backoff(a), NoExc, wrapped, L, rate_limited, 0, 0)
    ELSE Outcome("raise", 0, wrapped, wrapped, L, rate_limited, 0, 1)

\* except clauses that let an exception they do not name leave execute() as it is
except_clauses_reraise(e, a, m, L, last, rate_limited) ==
    Outcome("raise", 0, e, last, L, rate_limited, 0, 1)

\* the except clauses applied to an exception e raised in the try body
except_clauses(e, a, m, L, last, rate_limited) ==
    IF e.cls \in NoRetry
    THEN Outcome("raise", 0, e, last, L, rate_limited, 0, 1)
    ELSE retry_or_give_up(UnexpectedError, a, m, L, rate_limited)

\* the try body from the transport's reply on, at attempt a of a client with
\* max_retries m, limiter L (used when enabled) and local last_exception
after_request(r, a, m, enabled, L, last) ==
    IF r.kind = "connect_error" THEN retry_or_give_up(APIConnectionError, a, m, L, 0)
    ELSE IF r.kind = "other_error" THEN retry_or_give_up(UnexpectedError, a, m, L, 0)
    ELSE
    LET L1 == IF enabled THEN update_from_response(L, r.headers) ELSE L
        h == r.headers.retry_after
    IN  IF r.status = 429
        THEN IF enabled
             THEN IF h # Absent /\ Parsed(h) = None
                  THEN except_clauses(PyExc("ValueError"), a, m, L1, last, 1)
                  ELSE LET p == handle_rate_limit_response(
                                    L1, IF h = Absent THEN None ELSE Parsed(h))
                       IN  IF a < m
                           THEN Outcome("sleep", p.wait_time, NoExc, last, p.limiter, 1, 0, 0)
                           ELSE except_clauses(handle_response_error(r), a, m,
                                               p.limiter, last, 1)
             ELSE except_clauses(handle_response_error(r), a, m, L1, last, 1)
        ELSE IF ~is_success(r.status)
        THEN IF 500 <= r.status /\ r.status < 600 /\ a < m
             THEN Outcome("sleep", Backoff(a), NoExc, last, L1, 0, 0, 0)
             ELSE except_clauses(handle_response_error(r), a, m, L1, last, 0)
        ELSE Outcome("return", 0, NoExc, last,
                     IF enabled THEN reset_rate_limit_tracking(L1) ELSE L1, 0, 1, 0)

\* response.json(): the decoded body ("dict" for a JSON object, "list" for
\* other JSON), or None when json.JSONDecodeError is raised
json(body) ==
    IF body = "object" THEN Some("dict")
    ELSE IF body = "nonobject" THEN Some("list")
    ELSE None

\* BaseClient.get / BaseClient.post: what the caller receives when
\* _make_request_with_retries has done o on reply r (response.json() runs in
\* the same step as the return)
get(o, r) ==
    IF o.next = "return"
    THEN IF json(r.body) = None
         THEN [outcome |-> "raise", exc |-> PyExc("JSONDecodeError"), payload |-> None]
         ELSE [outcome |-> "return", exc |-> NoExc, payload |-> json(r.body)]
    ELSE [outcome |-> o.next, exc |-> o.exc, payload |-> None]

-----------------------------------------------------------------------------
(* The coroutines of concurrent logical requests.  Between two awaits a
   coroutine runs without interleaving; it is suspended in
     "pending"          not launched yet
     "acquire_wait"     await asyncio.sleep(wait_time) in acquire()
     "acquire_fallback" await asyncio.sleep(0.1) in acquire()
     "in_flight"        await self._client.request(...), which ends with a reply
                        or with httpx.TimeoutException at the latest when the
                        client's timeout has passed
     "backoff"          await asyncio.sleep(wait_time) before the next attempt
     "done"             returned or raised *)

Sleeping == {"acquire_wait", "acquire_fallback", "backoff"}

\* transport calls made so far by logical request t
Calls(t) == IF pc[t] \in {"in_flight", "backoff", "done"} THEN attempt[t] + 1 ELSE attempt[t]

\* a coroutine that holds the TokenBucket lock while it sleeps in acquire()
HeldAt_acquire_wait(p) ==
    IF p = "acquire_wait" THEN {"token_bucket._lock"} ELSE {}

\* the locks a coroutine holds while it is suspended at p: every
\* `with self._lock:` block of rate_limiter.py ends before the next await, and
\* the stats dict has no lock
HeldAt(p) == {}

\* the locks the code that runs from suspension point p to the next await takes
\* (consume and wait_time: the bucket's; the bookkeeping of acquire,
\* update_from_response, handle_rate_limit_response and
\* reset_rate_limit_tracking: the limiter's)
LocksTaken(p) ==
    IF ~enable_rate_limiting THEN {}
    ELSE IF p \in {"pending", "backoff", "acquire_wait"}
         THEN {"token_bucket._lock", "rate_limiter._lock"}
    ELSE IF p \in {"acquire_fallback", "in_flight"} THEN {"rate_limiter._lock"}
    ELSE {}

\* a threading.Lock held by a suspended coroutine blocks whoever takes it next
CanLock(t) ==
    \A u \in DOMAIN pc \ {t} : held[u] \cap LocksTaken(pc[t]) = {}

\* the coroutine of t is suspended again (or has ended)
Suspend(t) == held' = [held EXCEPT ![t] = HeldAt(pc'[t])]

\* a Send whose increments of the counters are lost
Send_no_count(t, a, L) ==
    /\ rate_limiter' = L
    /\ stats' = stats
    /\ pc' = [pc EXCEPT ![t] = "in_flight"]
    /\ attempt' = [attempt EXCEPT ![t] = a]
    /\ wake' = [wake EXCEPT ![t] = now + MaxLatency * TicksPerSecond]
    /\ acquired' = IF enable_rate_limiting THEN Append(acquired, now) ELSE acquired

\* a Send that counts every attempt as a retry
Send_retry_always(t, a, L) ==
    /\ rate_limiter' = L
    /\ stats' = [stats EXCEPT !.total_requests = @ + 1, !.retried_requests = @ + 1]
    /\ pc' = [pc EXCEPT ![t] = "in_flight"]
    /\ attempt' = [attempt EXCEPT ![t] = a]
    /\ wake' = [wake EXCEPT ![t] = now + MaxLatency * TicksPerSecond]
    /\ acquired' = IF enable_rate_limiting THEN Append(acquired, now) ELSE acquired

\* from the stats update to the await of the transport call, at attempt a
Send(t, a, L) ==
    /\ rate_limiter' = L
    /\ stats' = [stats EXCEPT !.total_requests = @ + 1,
                              !.retried_requests = IF a > 0 THEN @ + 1 ELSE @]
    /\ pc' = [pc EXCEPT ![t] = "in_flight"]
    /\ attempt' = [attempt EXCEPT ![t] = a]
    /\ wake' = [wake EXCEPT ![t] = now + MaxLatency * TicksPerSecond]
    /\ acquired' = IF enable_rate_limiting THEN Append(acquired, now) ELSE acquired

\* iteration a of the retry loop from its top to its first await
StartAttempt(t, a) ==
    IF enable_rate_limiting
    THEN LET c == consume(rate_limiter.token_bucket, now, 1)
             L1 == [rate_limiter EXCEPT !.token_bucket = c.bucket]
             w == wait_time(c.bucket, 1)
         IN  IF c.ok \/ w = 0
             THEN Send(t, a, track_request(L1, now))
             ELSE /\ rate_limiter' = L1
                  /\ pc' = [pc EXCEPT ![t] = "acquire_wait"]
                  /\ wake' = [wake EXCEPT ![t] = now + w]
                  /\ attempt' = [attempt EXCEPT ![t] = a]
                  /\ UNCHANGED <<stats, acquired>>
    ELSE Send(t, a, rate_limiter)

\* the caller starts execute()
Begin(t) ==
    /\ pc[t] = "pending"
    /\ now >= start_at[t]
    /\ CanLock(t)
    /\ StartAttempt(t, 0)
    /\ Suspend(t)
    /\ UNCHANGED <<now, enable_rate_limiting, max_retries, transport, start_at,
                   last_exception, result, reply, snapshot, frame>>

\* acquire(): the sleep for wait_time ends; "Try again after waiting"
AcquireWake(t) ==
    /\ pc[t] = "acquire_wait"
    /\ now >= wake[t]
    /\ CanLock(t)
    /\ LET c == consume(rate_limiter.token_bucket, now, 1)
           L1 == [rate_limiter EXCEPT !.token_bucket = c.bucket]
       IN  IF c.ok
           THEN Send(t, attempt[t], track_request(L1, now))
           ELSE /\ rate_limiter' = L1
                /\ pc' = [pc EXCEPT ![t] = "acquire_fallback"]
                /\ wake' = [wake EXCEPT ![t] = now + TicksPerSecond \div 10]
                /\ UNCHANGED <<stats, attempt, acquired>>
    /\ Suspend(t)
    /\ UNCHANGED <<now, enable_rate_limiting, max_retries, transport, start_at,
                   last_exception, result, reply, snapshot, frame>>

\* acquire(): the fallback sleep ends; the request goes on without consuming
FallbackWake(t) ==
    /\ pc[t] = "acquire_fallback"
    /\ now >= wake[t]
    /\ CanLock(t)
    /\ Send(t, attempt[t], track_request(rate_limiter, now))
    /\ Suspend(t)
    /\ UNCHANGED <<now, enable_rate_limiting, max_retries, transport, start_at,
                   last_exception, result, reply, snapshot, frame>>

\* the transport call of the current attempt completes with reply r
Respond(t) ==
    /\ pc[t] = "in_flight"
    /\ CanLock(t)
    /\ \E r \in transport :
       LET o == after_request(r, attempt[t], max_retries, enable_rate_limiting,
                              rate_limiter, last_exception[t])
       IN  /\ reply' = [reply EXCEPT ![t] = r]
           /\ rate_limiter' = o.limiter
           /\ last_exception' = [last_exception EXCEPT ![t] = o.last_exception]
           /\ stats' = [stats EXCEPT !.rate_limited_requests = @ + o.rate_limited,
                                     !.successful_requests = @ + o.successful,
                                     !.failed_requests = @ + o.failed]
           /\ pc' = [pc EXCEPT ![t] = IF o.next = "sleep" THEN "backoff" ELSE "done"]
           /\ wake' = [wake EXCEPT ![t] = IF o.next = "sleep"
                                          THEN now + o.seconds * TicksPerSecond ELSE @]
           /\ result' = [result EXCEPT ![t] = get(o, r)]
    /\ Suspend(t)
    /\ UNCHANGED <<now, enable_rate_limiting, max_retries, transport, start_at, attempt,
                   snapshot, acquired, frame>>

\* a retry that does not wait for the end of the backoff sleep
BackoffWake_early(t) ==
    /\ pc[t] = "backoff"
    /\ CanLock(t)
    /\ StartAttempt(t, attempt[t] + 1)
    /\ Suspend(t)
    /\ UNCHANGED <<now, enable_rate_limiting, max_retries, transport, start_at,
                   last_exception, result, reply, snapshot, frame>>

\* the sleep between two attempts ends; "continue"
BackoffWake(t) ==
    /\ pc[t] = "backoff"
    /\ now >= wake[t]
    /\ CanLock(t)
    /\ StartAttempt(t, attempt[t] + 1)
    /\ Suspend(t)
    /\ UNCHANGED <<now, enable_rate_limiting, max_retries, transport, start_at,
                   last_exception, result, reply, snapshot, frame>>

\* a cancellation that gives the token of the cancelled attempt back
propagate_cancel_refund(L, p) ==
    [L EXCEPT !.token_bucket.tokens = @ + TokenScale]

\* the limiter after asyncio.CancelledError, raised at suspension point p, has
\* left execute(): it is a BaseException, which no except clause of the retry
\* loop catches, and neither acquire() nor the loop has a finally clause
propagate_cancel(L, p) == L

\* the caller cancels the request while its coroutine is suspended
Cancel(t) ==
    /\ pc[t] \in Sleeping \cup {"in_flight"}
    /\ rate_limiter' = propagate_cancel(rate_limiter, pc[t])
    /\ pc' = [pc EXCEPT ![t] = "done"]
    /\ result' = [result EXCEPT ![t] = [outcome |-> "cancelled",
                                         exc |-> PyExc("CancelledError"),
                                         payload |-> None]]
    /\ Suspend(t)
    /\ UNCHANGED <<now, enable_rate_limiting, max_retries, stats, transport, start_at,
                   attempt, wake, last_exception, reply, snapshot, acquired, frame>>

\* a coroutine that the event loop has to run before time passes
Due(t) ==
    \/ pc[t] = "pending" /\ start_at[t] <= now
    \/ pc[t] \in Sleeping /\ wake[t] <= now
    \/ pc[t] = "in_flight" /\ wake[t] <= now

\* the next instant at which something can happen: the next whole second, or
\* an earlier end of a sleep or launch
NextInstant ==
    LET second == (now \div TicksPerSecond + 1) * TicksPerSecond
        timers == {wake[t] : t \in {u \in DOMAIN pc : pc[u] \in Sleeping}}
                    \cup {start_at[t] : t \in {u \in DOMAIN pc : pc[u] = "pending"}}
        sooner == {x \in timers : x < second}
    IN  IF sooner = {} THEN second
        ELSE CHOOSE x \in sooner : \A y \in sooner : x <= y

\* time passes, up to the next instant
Tick ==
    /\ \A t \in DOMAIN pc : ~Due(t)
    /\ \E t \in DOMAIN pc : pc[t] # "done"
    /\ NextInstant <= MaxTime * TicksPerSecond
    /\ now' = NextInstant
    /\ UNCHANGED <<rate_limiter, clientVars>>

Next ==
    \/ \E t \in DOMAIN pc :
         \/ Begin(t)
         \/ AcquireWake(t)
         \/ FallbackWake(t)
         \/ Respond(t)
         \/ BackoffWake(t)
    \/ Tick

-----------------------------------------------------------------------------
(* Clients, transports and launches explored *)

NoRequests == [t \in {} |-> 0]

\* the caller has not called get_stats() yet
NoSnapshot == [obj |-> "none", items |-> <<>>]

\* BaseClient.stats after __init__
NewStats ==
    [total_requests        |-> 0,
     successful_requests   |-> 0,
     failed_requests       |-> 0,
     rate_limited_requests |-> 0,
     retried_requests      |-> 0]

\* the logical requests of the default specification
Tasks == {1, 2}

\* (requests_per_second, burst_limit) of the clients explored
ClientConfigs == {<<1, 1>>, <<2, 2>>}

Bodies == {"object", "nonobject", "text"}

ReplyHeaders(retry_after) == Headers(Absent, Absent, retry_after, <<"req-1">>)

Ok == Response(200, "object", ReplyHeaders(Absent))

\* success statuses with each kind of body
SuccessReplies ==
    {Response(s, b, ReplyHeaders(Absent)) : s \in {200, 204}, b \in Bodies}

ErrorReplies ==
    {Response(s, b, ReplyHeaders(Absent)) :
        s \in {302, 400, 401, 402, 404, 500, 503}, b \in Bodies}

ThrottleReplies ==
    {Response(429, b, ReplyHeaders(a)) :
        b \in Bodies, a \in {Absent, IntHeader(5), BadHeader}}

Failures ==
    ErrorReplies \cup ThrottleReplies
        \cup {TransportError("connect_error"), TransportError("other_error")}

\* the transports explored: one that always gives the same failure, one
\* that gives that failure or a success, and one that always gives the same
\* success
Menus ==
    {{r} : r \in Failures} \cup {{r, Ok} : r \in Failures}
        \cup {{r} : r \in SuccessReplies}

InitRequests(T, launches) ==
    /\ now = 0
    /\ stats = NewStats
    /\ start_at \in [T -> launches]
    /\ pc = [t \in T |-> "pending"]
    /\ attempt = [t \in T |-> 0]
    /\ wake = [t \in T |-> 0]
    /\ last_exception = [t \in T |-> NoExc]
    /\ result = [t \in T |-> [outcome |-> "none", exc |-> NoExc, payload |-> None]]
    /\ reply = [t \in T |-> NoReply]
    /\ held = [t \in T |-> {}]
    /\ snapshot = NoSnapshot
    /\ acquired = <<>>
    /\ frame = NoRequests

\* BaseClient.__init__ (the limiter is created with adaptive=True), and the
\* launch instants of the requests
Init ==
    /\ \E cfg \in ClientConfigs : rate_limiter = RateLimiter(cfg[1], cfg[2], TRUE, 0)
    /\ enable_rate_limiting \in BOOLEAN
    /\ max_retries \in 0..MaxRetries
    /\ transport \in Menus
    /\ InitRequests(Tasks, {0, TicksPerSecond})

Spec == Init /\ [][Next]_vars

-----------------------------------------------------------------------------
(* The limiter driven directly through its public methods, at arbitrary
   readings of time.time() (which the system may set back). *)

\* (requests_per_second, burst_limit) of the limiters explored
LimiterConfigs == {<<1, 1>>, <<1, 2>>, <<2, 2>>, <<3, 3>>}

\* retry_after arguments of a direct handle_rate_limit_response call
Hints == {None, Some(0), Some(5)}

\* header sets of a direct update_from_response call
HeaderMenu ==
    {Headers(r, s, a, Absent) :
        r \in {Absent, IntHeader(7), BadHeader},
        s \in {Absent, IntHeader(9), BadHeader},
        a \in {Absent, IntHeader(0), IntHeader(5), BadHeader}}

InitLimiter ==
    /\ now = 0
    /\ \E cfg \in LimiterConfigs, adaptive \in BOOLEAN :
          rate_limiter = RateLimiter(cfg[1], cfg[2], adaptive, 0)
    /\ enable_rate_limiting = TRUE
    /\ max_retries = 0
    /\ stats = NewStats
    /\ transport = {}
    /\ start_at = NoRequests
    /\ pc = NoRequests
    /\ attempt = NoRequests
    /\ wake = NoRequests
    /\ last_exception = NoRequests
    /\ result = NoRequests
    /\ reply = NoRequests
    /\ held = NoRequests
    /\ snapshot = NoSnapshot
    /\ acquired = <<>>
    /\ frame = NoRequests

CallConsume ==
    /\ \E n \in 1..MaxConsume :
          rate_limiter' = [rate_limiter EXCEPT !.token_bucket = consume(@, now, n).bucket]
    /\ UNCHANGED <<now, clientVars>>

CallHandleRateLimitResponse ==
    /\ rate_limiter.consecutive_rate_limits < MaxThrottle
    /\ \E hint \in Hints :
          rate_limiter' = handle_rate_limit_response(rate_limiter, hint).limiter
    /\ UNCHANGED <<now, clientVars>>

CallResetRateLimitTracking ==
    /\ rate_limiter' = reset_rate_limit_tracking(rate_limiter)
    /\ UNCHANGED <<now, clientVars>>

CallUpdateFromResponse ==
    /\ \E h \in HeaderMenu : rate_limiter' = update_from_response(rate_limiter, h)
    /\ UNCHANGED <<now, clientVars>>

\* time passes
ClockAdvance ==
    /\ now + TicksPerSecond <= MaxClock * TicksPerSecond
    /\ now' = now + TicksPerSecond
    /\ UNCHANGED <<rate_limiter, clientVars>>

\* the system clock behind time.time() is set back (explored while the balance
\* is still non-negative, which keeps the reachable balances finite)
ClockSetBack ==
    /\ now >= TicksPerSecond
    /\ rate_limiter.token_bucket.tokens >= 0
    /\ now' = now - TicksPerSecond
    /\ UNCHANGED <<rate_limiter, clientVars>>

\* the limiter's adaptive state under throttling responses, successes and headers
NextLimiter ==
    \/ CallHandleRateLimitResponse
    \/ CallResetRateLimitTracking
    \/ CallUpdateFromResponse

SpecLimiter == InitLimiter /\ [][NextLimiter]_vars

\* the bucket under consume calls at arbitrary clock readings and rate changes
NextBucket ==
    \/ CallConsume
    \/ CallHandleRateLimitResponse
    \/ CallResetRateLimitTracking
    \/ ClockAdvance
    \/ ClockSetBack

SpecBucket == InitLimiter /\ [][NextBucket]_vars

-----------------------------------------------------------------------------
(* Three requests launched together on one client, against a transport that
   succeeds or gives a server error *)

BurstTasks == {1, 2, 3}

ServerError500 == Response(500, "object", ReplyHeaders(Absent))

InitConcurrent ==
    /\ \E cfg \in {<<1, 1>>, <<1, 2>>} : rate_limiter = RateLimiter(cfg[1], cfg[2], TRUE, 0)
    /\ enable_rate_limiting = TRUE
    /\ max_retries \in 0..MaxRetries
    /\ transport \in {{Ok}, {Ok, ServerError500}}
    /\ InitRequests(BurstTasks, {0})

SpecConcurrent == InitConcurrent /\ [][Next]_vars

-----------------------------------------------------------------------------
(* Two requests launched together, each of which the caller may cancel at any
   of its suspension points *)

Throttle429 == Response(429, "object", ReplyHeaders(Absent))

InitCancel ==
    /\ \E cfg \in ClientConfigs : rate_limiter = RateLimiter(cfg[1], cfg[2], TRUE, 0)
    /\ enable_rate_limiting \in BOOLEAN
    /\ max_retries \in 0..MaxRetries
    /\ transport \in {{Ok}, {Ok, ServerError500}, {Throttle429}}
    /\ InitRequests(Tasks, {0})

NextCancel ==
    \/ Next
    \/ \E t \in DOMAIN pc : Cancel(t)

SpecCancel == InitCancel /\ [][NextCancel]_vars

-----------------------------------------------------------------------------
(* Properties *)

Requests == DOMAIN pc

\* the step in which the transport call of request t completes
Replied(t) == pc[t] = "in_flight" /\ pc'[t] # "in_flight"

\* the step in which acquire() returns to request t (the request goes on to
\* the stats update and the transport call)
Acquired(t) == enable_rate_limiting /\ pc[t] # "in_flight" /\ pc'[t] = "in_flight"

\* the step in which request t receives a success status
Succeeded(t) ==
    Replied(t) /\ reply'[t].kind = "response" /\ is_success(reply'[t].status)

IsServerError(r) == r.kind = "response" /\ 500 <= r.status /\ r.status < 600
IsThrottle(r) == r.kind = "response" /\ r.status = 429

\* the error class the status-code mapping gives a status
ClassOf(status) ==
    IF status = 401 THEN "AuthenticationError"
    ELSE IF status = 402 THEN "QuotaExceededError"
    ELSE IF status = 404 THEN "NotFoundError"
    ELSE IF status = 400 THEN "ValidationError"
    ELSE IF status = 429 THEN "RateLimitError"
    ELSE IF 500 <= status /\ status < 600 THEN "ServerError"
    ELSE "ThrivingAPIError"

\* max(1, baseline * 0.8^c), in units of 1/RateScale, rounded down
DecayBound(L, c) ==
    Max(RateScale, (L.rate_limit_info.requests_per_second * 8^c * RateScale) \div 10^c)

(* C1: against a transport that answers every attempt with a 5xx status, a
   request with max_retries = m sleeps min(60, 2^attempt) seconds after each
   attempt that has attempts remaining, ends only after attempt m (m+1
   transport calls), and then raises ServerError. *)
C1_ServerErrorRetriedThenRaised ==
    [][(\A r \in transport : IsServerError(r)) =>
        \A t \in Requests :
            Replied(t) =>
                /\ attempt[t] < max_retries =>
                       /\ pc'[t] = "backoff"
                       /\ wake'[t] = now + Backoff(attempt[t]) * TicksPerSecond
                /\ attempt[t] = max_retries =>
                       /\ pc'[t] = "done"
                       /\ result'[t].outcome = "raise"
                       /\ result'[t].exc.cls = "ServerError"]_vars

(* C2: a first reply with status 401 (resp. 400), whatever its body, ends the
   request in that step with AuthenticationError (resp. ValidationError),
   without a sleep, and adds exactly 1 to failed_requests. *)
C2_AuthAndValidationNotRetried ==
    [][\A t \in Requests :
          (Replied(t) /\ attempt[t] = 0 /\ reply'[t].kind = "response"
               /\ reply'[t].status \in {400, 401}) =>
              /\ pc'[t] = "done"
              /\ result'[t].outcome = "raise"
              /\ result'[t].exc.cls = ClassOf(reply'[t].status)
              /\ stats'.failed_requests = stats.failed_requests + 1]_vars

(* C3: a reply with a non-success status that is neither 429 nor 5xx ends the
   request in that step, without a sleep, with the error its status code maps
   to, carrying that status code, at whatever attempt it arrives. *)
C3_OtherStatusesNotRetried ==
    [][\A t \in Requests :
          (Replied(t) /\ reply'[t].kind = "response"
               /\ ~is_success(reply'[t].status)
               /\ reply'[t].status # 429
               /\ ~IsServerError(reply'[t])) =>
              /\ pc'[t] = "done"
              /\ result'[t].outcome = "raise"
              /\ result'[t].exc.cls = ClassOf(reply'[t].status)
              /\ result'[t].exc.status_code = Some(reply'[t].status)]_vars

(* C4: every step in which acquire() returns is a step that deducts one token
   from the bucket, so returned acquire() calls and deducted tokens stay
   equal in number. *)
C4_AcquireReturnsWithToken ==
    [][\A t \in Requests :
          Acquired(t) =>
              rate_limiter'.token_bucket.tokens
                  = Refilled(rate_limiter.token_bucket, now) - TokenScale]_vars

\* burst_limit = 2, requests_per_second = 1, three requests launched together
BurstScenario ==
    /\ rate_limiter.rate_limit_info.burst_limit = 2
    /\ rate_limiter.rate_limit_info.requests_per_second = 1
    /\ Requests = BurstTasks
    /\ \A t \in Requests : start_at[t] = 0 /\ pc[t] # "pending"

PastAcquire(t) == pc[t] \in {"in_flight", "backoff", "done"}

(* C5: in the burst scenario, as long as less than 1 second has passed,
   exactly two requests are past acquire() (they never slept in it) and
   exactly one is suspended in acquire(), with a sleep that ends no earlier
   than 1 second after the launch; so it reaches the transport only then. *)
C5_ThirdCallWaitsOneSecond ==
    (BurstScenario /\ now < TicksPerSecond) =>
        /\ Cardinality({t \in Requests : PastAcquire(t)}) = 2
        /\ Cardinality({t \in Requests : pc[t] = "acquire_wait"}) = 1
        /\ \A t \in Requests : pc[t] = "acquire_wait" =>
               /\ attempt[t] = 0
               /\ wake[t] >= TicksPerSecond

\* the suspended request has reached the transport, one second after the launch
C5_Witness ==
    /\ BurstScenario
    /\ now = TicksPerSecond
    /\ \A t \in Requests : PastAcquire(t)
    /\ stats.total_requests = 3

(* C6: the balance of the bucket stays between 0 and capacity, under consume
   calls at arbitrary clock readings and rate changes by the limiter. *)
C6_TokensWithinCapacity ==
    /\ 0 <= rate_limiter.token_bucket.tokens
    /\ rate_limiter.token_bucket.tokens
           <= rate_limiter.token_bucket.capacity * TokenScale

(* C7, as stated: with adaptive mode on, after k >= 1 consecutive throttling
   responses the refill rate is at most max(1, baseline * 0.8^k). *)
C7_DecayFromFirstThrottle ==
    (rate_limiter.adaptive /\ rate_limiter.consecutive_rate_limits >= 1) =>
        rate_limiter.token_bucket.refill_rate
            <= DecayBound(rate_limiter, rate_limiter.consecutive_rate_limits)

(* C7, amended: with adaptive mode on, after k >= 2 consecutive throttling
   responses the refill rate is at most max(1, baseline * 0.8^k); after the
   first one (k = 1) it is still the baseline. *)
C7_DecayFromSecondThrottle ==
    rate_limiter.adaptive =>
        /\ rate_limiter.consecutive_rate_limits >= 2 =>
               rate_limiter.token_bucket.refill_rate
                   <= DecayBound(rate_limiter, rate_limiter.consecutive_rate_limits)
        /\ rate_limiter.consecutive_rate_limits = 1 =>
               rate_limiter.token_bucket.refill_rate = Baseline(rate_limiter)

\* three throttling responses in a row have lowered the rate below the baseline
C7_Witness ==
    /\ rate_limiter.adaptive
    /\ rate_limiter.consecutive_rate_limits = 3
    /\ rate_limiter.token_bucket.refill_rate < Baseline(rate_limiter)
    /\ rate_limiter.token_bucket.refill_rate > RateScale

(* C8: the step in which an attempt succeeds (recover) leaves the throttle
   count at 0 and the refill rate exactly at the configured baseline, at once;
   when the count was already 0 it changes neither the count nor the bucket's
   rate. *)
C8_RecoverRestoresBaseline ==
    [][\A t \in Requests :
          (enable_rate_limiting /\ Succeeded(t)) =>
              /\ rate_limiter'.consecutive_rate_limits = 0
              /\ rate_limiter'.token_bucket.refill_rate = Baseline(rate_limiter)
              /\ rate_limiter.consecutive_rate_limits = 0 =>
                     rate_limiter'.token_bucket = rate_limiter.token_bucket]_vars

\* a request succeeded on its third attempt, 2 + 4 seconds after its first one
\* (the second throttling response in a row had lowered the rate), and the
\* limiter is back at its baseline
C8_Witness ==
    /\ enable_rate_limiting
    /\ rate_limiter.rate_limit_info.requests_per_second = 2
    /\ \E t \in Requests :
          /\ result[t].outcome = "return"
          /\ attempt[t] = 2
          /\ start_at[t] = 0
    /\ now = 6 * TicksPerSecond
    /\ stats.rate_limited_requests = 2
    /\ rate_limiter.consecutive_rate_limits = 0
    /\ rate_limiter.token_bucket.refill_rate = Baseline(rate_limiter)

(* C9: a 429 reply with retry-after: 5 that arrives while attempts remain adds
   exactly 1 to rate_limited_requests, and the request's next attempt, if
   there is one, starts no earlier than 5 seconds after the reply. *)
C9_RetryAfterHonoured ==
    [][\A t \in Requests :
          (Replied(t) /\ IsThrottle(reply'[t])
               /\ reply'[t].headers.retry_after = IntHeader(5)
               /\ attempt[t] < max_retries) =>
              /\ stats'.rate_limited_requests = stats.rate_limited_requests + 1
              /\ pc'[t] # "done" =>
                     /\ pc'[t] = "backoff"
                     /\ wake'[t] >= now + 5 * TicksPerSecond]_vars

(* C10: with or without rate limiting, against a transport that answers every
   attempt with 429, a request with max_retries = m ends after m+1 transport
   calls with RateLimitError carrying the retry-after value of the last
   reply when it sent one. *)
C10_ThrottleRetriedThenRaised ==
    (\A r \in transport : IsThrottle(r)) =>
        \A t \in Requests :
            pc[t] = "done" =>
                /\ Calls(t) = max_retries + 1
                /\ result[t].outcome = "raise"
                /\ result[t].exc.cls = "RateLimitError"
                /\ reply[t].headers.retry_after # Absent
                       /\ Parsed(reply[t].headers.retry_after) # None =>
                       result[t].exc.retry_after = Parsed(reply[t].headers.retry_after)

IsConnectFailure(r) == r.kind = "connect_error"

(* C11: an attempt that ends with a connect or timeout failure of the
   transport is followed, while attempts remain, by a sleep of
   min(60, 2^attempt) seconds that leaves failed_requests alone; at attempt
   max_retries (after max_retries + 1 transport calls) it ends the request, in
   that step and without a sleep, with APIConnectionError and adds exactly 1
   to failed_requests. *)
C11_ConnectFailureRetriedThenRaised ==
    [][\A t \in Requests :
          (Replied(t) /\ IsConnectFailure(reply'[t])) =>
              /\ attempt[t] < max_retries =>
                     /\ pc'[t] = "backoff"
                     /\ wake'[t] = now + Backoff(attempt[t]) * TicksPerSecond
                     /\ stats'.failed_requests = stats.failed_requests
              /\ attempt[t] >= max_retries =>
                     /\ attempt[t] = max_retries
                     /\ pc'[t] = "done"
                     /\ result'[t].outcome = "raise"
                     /\ result'[t].exc.cls = "APIConnectionError"
                     /\ stats'.failed_requests = stats.failed_requests + 1]_vars

\* a request gave up after three connect failures, 1 + 2 seconds after its launch
C11_Witness ==
    /\ \A r \in transport : IsConnectFailure(r)
    /\ max_retries = 2
    /\ \E t \in Requests :
          /\ pc[t] = "done"
          /\ Calls(t) = 3
          /\ start_at[t] = 0
          /\ result[t].exc.cls = "APIConnectionError"
    /\ now = 3 * TicksPerSecond

(* C12: the step in which an attempt receives a success status calls
   reset_rate_limit_tracking (after update_from_response), adds exactly 1 to
   successful_requests, leaves failed_requests alone, ends the request, and
   hands the caller the decoded body of that response; a client whose only
   transport call so far got a 200 has total_requests = 1 and
   successful_requests = 1. *)
C12_SuccessReturnsDecodedBody ==
    [][\A t \in Requests :
          Succeeded(t) =>
              /\ enable_rate_limiting =>
                     rate_limiter' = reset_rate_limit_tracking(
                                         update_from_response(rate_limiter, reply'[t].headers))
              /\ stats'.successful_requests = stats.successful_requests + 1
              /\ stats'.failed_requests = stats.failed_requests
              /\ pc'[t] = "done"
              /\ result'[t].outcome = "return"
              /\ result'[t].payload # None
              /\ result'[t].payload = json(reply'[t].body)
              /\ (stats.total_requests = 1 /\ stats.successful_requests = 0) =>
                     (stats'.total_requests = 1 /\ stats'.successful_requests = 1)]_vars

(* C13: _handle_response_error maps the non-success status of a reply to the
   one error class of that status (401 AuthenticationError, 402
   QuotaExceededError, 404 NotFoundError, 400 ValidationError, 429
   RateLimitError with the retry-after value when the header is present,
   500..599 ServerError, any other ThrivingAPIError), carrying the status
   code; it always raises. *)
C13_StatusMapsToOneErrorClass ==
    \A t \in Requests :
        (reply[t].kind = "response" /\ ~is_success(reply[t].status)) =>
            LET e == handle_response_error(reply[t])
            IN  /\ e # NoExc
                /\ e.cls = ClassOf(reply[t].status)
                /\ e.status_code = Some(reply[t].status)
                /\ (reply[t].status = 429 /\ reply[t].headers.retry_after # Absent) =>
                       /\ e.retry_after # None
                       /\ e.retry_after = Parsed(reply[t].headers.retry_after)

\* the exception classes of exceptions.py
Classified ==
    {"ThrivingAPIError", "AuthenticationError", "RateLimitError", "ValidationError",
     "APIConnectionError", "ServerError", "TimeoutError", "QuotaExceededError",
     "NotFoundError"}

(* C14: the step in which an attempt's transport call completes either goes
   on to a retry, handing the caller nothing, or ends the request with one
   outcome: the decoded payload of that attempt, or one error of the classes
   of exceptions.py. *)
C14_OneOutcomePerRequest ==
    [][\A t \in Requests :
          Replied(t) =>
              \/ /\ pc'[t] = "backoff"
                 /\ result'[t].outcome = "sleep"
                 /\ result'[t].exc = NoExc
                 /\ result'[t].payload = None
              \/ /\ pc'[t] = "done"
                 /\ result'[t].outcome = "return"
                 /\ result'[t].payload # None
                 /\ result'[t].exc = NoExc
              \/ /\ pc'[t] = "done"
                 /\ result'[t].outcome = "raise"
                 /\ result'[t].exc.cls \in Classified
                 /\ result'[t].payload = None]_vars

(* C15: the error that ends a request whose last attempt received an HTTP
   error response carries that response's status code, its message and its
   x-request-id. *)
C15_TerminalErrorKeepsDiagnostics ==
    \A t \in Requests :
        (pc[t] = "done" /\ result[t].outcome = "raise"
            /\ reply[t].kind = "response" /\ ~is_success(reply[t].status)) =>
            /\ result[t].exc.status_code = Some(reply[t].status)
            /\ result[t].exc.message = ErrorMessage(reply[t])
            /\ result[t].exc.request_id = reply[t].headers.x_request_id

(* C16: handle_rate_limit_response(hint) adds 1 to consecutive_rate_limits
   and returns the hint whenever one is given (0 included), else the stored
   rate_limit_info.retry_after whenever there is one (0 included), else
   min(60, 2^c) for the count c after the increment. *)
C16_PenalizeReturnsHintFirst ==
    \A hint \in Hints :
        LET p == handle_rate_limit_response(rate_limiter, hint)
            c == rate_limiter.consecutive_rate_limits + 1
            stored == rate_limiter.rate_limit_info.retry_after
        IN  /\ p.limiter.consecutive_rate_limits = c
            /\ p.wait_time = IF hint # None THEN hint[1]
                             ELSE IF stored # None THEN stored[1]
                             ELSE Backoff(c)

\* what a header leaves in its field: its value when it parses, the previous
\* value when it is absent or malformed
Kept(old, h) == IF h = Absent \/ h = BadHeader THEN old ELSE Some(h[2])

\* the three fields after update_from_response(h) are the ones Kept gives
FieldsFollow(L, L2, h) ==
    /\ L2.rate_limit_info.remaining_requests
           = Kept(L.rate_limit_info.remaining_requests, h.x_ratelimit_remaining)
    /\ L2.rate_limit_info.reset_time
           = Kept(L.rate_limit_info.reset_time, h.x_ratelimit_reset)
    /\ L2.rate_limit_info.retry_after
           = Kept(L.rate_limit_info.retry_after, h.retry_after)

(* C17, as stated: update_from_response stores each of the three fields whose
   header parses and leaves each field whose header is absent or malformed as
   it was, whatever the other headers are. *)
C17_ParsedFieldsStored ==
    \A h \in HeaderMenu :
        FieldsFollow(rate_limiter, update_from_response(rate_limiter, h), h)

(* C17, amended: with adaptive mode on, update_from_response stores each of
   the three fields whose header parses and leaves each field whose header is
   absent or malformed as it was, whatever the other headers are, and touches
   nothing else; with adaptive mode off it changes nothing at all. *)
C17_ParsedFieldsStoredWhenAdaptive ==
    \A h \in HeaderMenu :
        LET L2 == update_from_response(rate_limiter, h)
        IN  /\ rate_limiter.adaptive =>
                /\ FieldsFollow(rate_limiter, L2, h)
                /\ L2 = [rate_limiter EXCEPT !.rate_limit_info = L2.rate_limit_info]
                /\ L2.rate_limit_info.requests_per_second
                       = rate_limiter.rate_limit_info.requests_per_second
                /\ L2.rate_limit_info.burst_limit = rate_limiter.rate_limit_info.burst_limit
            /\ ~rate_limiter.adaptive => L2 = rate_limiter

\* headers with a malformed reset time among two well-formed values have been
\* observed: two fields are stored, the third is as it was
C17_Witness ==
    /\ rate_limiter.adaptive
    /\ rate_limiter.rate_limit_info.remaining_requests = Some(7)
    /\ rate_limiter.rate_limit_info.reset_time = None
    /\ rate_limiter.rate_limit_info.retry_after = Some(5)

(* C18: the error _handle_response_error raises for a non-success reply is
   the one its status code maps to, with the message read from the body: the
   body's error/message field for a JSON object, the raw body otherwise. *)
C18_MessageFromBody ==
    \A t \in Requests :
        (reply[t].kind = "response" /\ ~is_success(reply[t].status)
            /\ reply[t].headers.retry_after # BadHeader) =>
            LET e == handle_response_error(reply[t])
            IN  /\ e.message = ErrorMessage(reply[t])
                /\ e.cls = ClassOf(reply[t].status)

(* C19: in every state of every interleaving, no coroutine holds the
   TokenBucket's lock or the limiter's lock (while suspended in the acquire
   wait, the fallback sleep, a backoff sleep or the transport call), so every
   coroutine can take the locks its next step needs: a request waiting in
   acquire() keeps no other request from consuming a token. *)
C19_NoLockHeldWhileSuspended ==
    \A t \in Requests :
        /\ held[t] = {}
        /\ CanLock(t)

\* at 1 second a retry has consumed the refilled token and is at the transport
\* while another request, whose acquire() sleep has ended, has not run yet
C19_Witness ==
    /\ enable_rate_limiting
    /\ now = TicksPerSecond
    /\ rate_limiter.token_bucket.tokens < TokenScale
    /\ \E t, u \in Requests :
          /\ pc[t] = "acquire_wait"
          /\ wake[t] <= now
          /\ pc[u] = "in_flight"
          /\ attempt[u] = 1

\* the step in which the coroutine of request t is cancelled
Cancelled(t) == result[t].outcome # "cancelled" /\ result'[t].outcome = "cancelled"

(* C20: the step that cancels a request at a suspension point leaves the
   bucket as it was (no token comes back), leaves the request holding no lock,
   leaves every counter of stats as it was, and leaves a balance that was
   between 0 and capacity between 0 and capacity. *)
C20_CancelLeavesStateIntact ==
    [][\A t \in Requests :
          Cancelled(t) =>
              /\ rate_limiter'.token_bucket = rate_limiter.token_bucket
              /\ held'[t] = {}
              /\ stats' = stats
              /\ C6_TokensWithinCapacity =>
                     /\ 0 <= rate_limiter'.token_bucket.tokens
                     /\ rate_limiter'.token_bucket.tokens
                            <= rate_limiter'.token_bucket.capacity * TokenScale]_vars

\* a request was cancelled after its attempt had taken the only token, while
\* the other request waits in acquire() for the refill
C20_Witness ==
    /\ enable_rate_limiting
    /\ now = 0
    /\ rate_limiter.token_bucket.tokens = 0
    /\ stats.total_requests = 1
    /\ \E t, u \in Requests :
          /\ result[t].outcome = "cancelled"
          /\ pc[t] = "done"
          /\ pc[u] = "acquire_wait"

\* 1 when the condition holds, else 0
Count(cond) == IF cond THEN 1 ELSE 0

\* the step in which request t goes from its acquire to the transport call
Sent(t) == pc[t] # "in_flight" /\ pc'[t] = "in_flight"

(* C21: no counter of stats ever decreases, and every step adds to each
   counter exactly the increments the requests perform in that step: 1 to
   total_requests (and 1 to retried_requests at an attempt after the first)
   when a request goes to the transport, 1 to rate_limited_requests when a
   429 arrives, 1 to successful_requests when a success arrives, 1 to
   failed_requests when an error ends the request; so no increment of
   concurrent requests is lost. *)
C21_NoIncrementLost ==
    [][/\ stats'.total_requests = stats.total_requests
              + Cardinality({t \in Requests : Sent(t)})
       /\ stats'.retried_requests = stats.retried_requests
              + Cardinality({t \in Requests : Sent(t) /\ attempt'[t] > 0})
       /\ stats'.rate_limited_requests = stats.rate_limited_requests
              + Cardinality({t \in Requests : Replied(t) /\ IsThrottle(reply'[t])})
       /\ stats'.successful_requests = stats.successful_requests
              + Cardinality({t \in Requests : Succeeded(t)})
       /\ stats'.failed_requests = stats.failed_requests
              + Cardinality({t \in Requests :
                    Replied(t) /\ ~Succeeded(t) /\ pc'[t] = "done"})
       /\ \A k \in DOMAIN stats : stats'[k] >= stats[k]]_vars

\* two concurrent requests made three attempts each and both failed
C21_Witness ==
    /\ stats.total_requests = 6
    /\ stats.retried_requests = 4
    /\ stats.failed_requests = 2
    /\ \A t \in Requests : pc[t] = "done" /\ start_at[t] = 0

\* the sum of f over the requests of S
RECURSIVE SumOver(_, _)
SumOver(f, S) ==
    IF S = {} THEN 0
    ELSE LET t == CHOOSE x \in S : TRUE
         IN  f[t] + SumOver(f, S \ {t})

(* C29: total_requests is the number of transport attempts the requests have
   made, retried_requests the number of those with an attempt index above 0
   (a - 1 for a request that made a >= 1 attempts), so retried_requests never
   exceeds total_requests. *)
C29_TotalAndRetriedCountAttempts ==
    /\ stats.total_requests = SumOver([t \in Requests |-> Calls(t)], Requests)
    /\ stats.retried_requests
           = SumOver([t \in Requests |-> Max(Calls(t) - 1, 0)], Requests)
    /\ stats.retried_requests <= stats.total_requests

\* one request made three attempts, the other a single one
C29_Witness ==
    /\ \E t, u \in Requests :
          /\ pc[t] = "done" /\ Calls(t) = 3
          /\ pc[u] = "done" /\ Calls(u) = 1
    /\ stats.total_requests = 4
    /\ stats.retried_requests = 2

(* C23: consume(n) at clock reading now sets last_refill to now and the
   balance to min(capacity, tokens + elapsed * refill_rate); it returns true
   and deducts exactly n when that balance is at least n, and otherwise
   returns false and leaves the refilled balance, which is not below the
   balance before the call when the clock has not gone back. *)
C23_ConsumeRefillsThenDeducts ==
    \A n \in 1..MaxConsume :
        LET b == rate_limiter.token_bucket
            c == consume(b, now, n)
            grown == b.tokens + (now - b.last_refill) * b.refill_rate
            refilled == IF grown > b.capacity * TokenScale
                        THEN b.capacity * TokenScale ELSE grown
        IN  /\ c.bucket.last_refill = now
            /\ c.bucket.capacity = b.capacity
            /\ c.bucket.refill_rate = b.refill_rate
            /\ c.ok <=> refilled >= n * TokenScale
            /\ c.ok => c.bucket.tokens = refilled - n * TokenScale
            /\ ~c.ok => c.bucket.tokens = refilled
            /\ (~c.ok /\ now >= b.last_refill) => c.bucket.tokens >= b.tokens

\* a consume(2) one second after the rate was lowered to 1.28/s failed and left
\* the refilled 1.28 tokens in the bucket
C23_Witness ==
    /\ rate_limiter.token_bucket.refill_rate = 12800
    /\ rate_limiter.token_bucket.tokens = 12800 * TicksPerSecond
    /\ rate_limiter.token_bucket.last_refill = now
    /\ now = TicksPerSecond

\* the bucket is as TokenBucket.__init__ made it, and no time has passed
Fresh ==
    /\ now = 0
    /\ rate_limiter.token_bucket
           = TokenBucket(rate_limiter.rate_limit_info.burst_limit,
                         rate_limiter.rate_limit_info.requests_per_second, 0)

(* C24: on a newly created bucket, with no time passing, for every n from 1
   to capacity the first consume(n) returns true, and a second consume(n)
   right after it returns false when n > capacity - n and true otherwise. *)
C24_FirstConsumeSucceedsOnce ==
    Fresh =>
        \A n \in 1..rate_limiter.token_bucket.capacity :
            LET first == consume(rate_limiter.token_bucket, now, n)
                second == consume(first.bucket, now, n)
            IN  /\ first.ok
                /\ first.bucket.tokens
                       = (rate_limiter.token_bucket.capacity - n) * TokenScale
                /\ second.ok <=> ~(n > rate_limiter.token_bucket.capacity - n)

\* consume(2) has emptied a new bucket of capacity 3 down to one token, at
\* creation time
C24_Witness ==
    /\ now = 0
    /\ rate_limiter.token_bucket.capacity = 3
    /\ rate_limiter.token_bucket.tokens = TokenScale
    /\ rate_limiter.token_bucket.last_refill = 0
    /\ rate_limiter.consecutive_rate_limits = 0

(* C25: wait_time(n) is 0 when the balance is at least n; otherwise it is
   positive and is (n - tokens) / refill_rate (here: the least number of ticks
   w with w * refill_rate >= n - tokens).  It is computed from the bucket
   alone, which it leaves as it is. *)
C25_WaitTimeIsShortfallOverRate ==
    \A n \in 1..MaxConsume :
        LET b == rate_limiter.token_bucket
            w == wait_time(b, n)
            short == n * TokenScale - b.tokens
        IN  /\ b.tokens >= n * TokenScale => w = 0
            /\ b.tokens < n * TokenScale =>
                   /\ w > 0
                   /\ w * b.refill_rate >= short
                   /\ (w - 1) * b.refill_rate < short

\* an empty bucket of capacity 2 that refills 2 tokens per second: the wait
\* for one token is half a second
C25_Witness ==
    /\ rate_limiter.token_bucket.capacity = 2
    /\ rate_limiter.token_bucket.refill_rate = 2 * RateScale
    /\ rate_limiter.token_bucket.tokens = 0
    /\ rate_limiter.token_bucket.last_refill = TicksPerSecond
    /\ now = TicksPerSecond
    /\ wait_time(rate_limiter.token_bucket, 1) = TicksPerSecond \div 2

\* the retry-after value the executor passes to handle_rate_limit_response
HintOf(r) ==
    IF r.headers.retry_after = Absent \/ r.headers.retry_after = BadHeader
    THEN None ELSE Some(r.headers.retry_after[2])

(* C26: with a limiter configured, the step in which a 429 arrives, whatever
   its retry-after header (absent, integer or malformed) and also at the last
   attempt, adds 1 to rate_limited_requests and leaves the limiter as one
   update_from_response followed by one handle_rate_limit_response leave it;
   a retry sleep starts only in that step. *)
C26_ThrottleObservedThenPenalized ==
    [][\A t \in Requests :
          (enable_rate_limiting /\ Replied(t) /\ IsThrottle(reply'[t])) =>
              /\ stats'.rate_limited_requests = stats.rate_limited_requests + 1
              /\ rate_limiter'
                     = handle_rate_limit_response(
                           update_from_response(rate_limiter, reply'[t].headers),
                           HintOf(reply'[t])).limiter]_vars

(* C27: with adaptive mode on, a handle_rate_limit_response that brings the
   count to c leaves the refill rate at max(1, baseline * 0.8^c) when c > 1 and
   as it was when c = 1: the rate is a function of the baseline and c alone. *)
C27_DecayDoesNotCompound ==
    [][(rate_limiter.adaptive
          /\ rate_limiter'.consecutive_rate_limits
                 = rate_limiter.consecutive_rate_limits + 1) =>
          LET c == rate_limiter'.consecutive_rate_limits
          IN  /\ c > 1 => rate_limiter'.token_bucket.refill_rate
                              = DecayBound(rate_limiter, c)
              /\ c = 1 => rate_limiter'.token_bucket.refill_rate
                              = rate_limiter.token_bucket.refill_rate]_vars

\* the third throttling response in a row has set a baseline of 3/s to
\* 3 * 0.8^3 = 1.536/s
C27_Witness ==
    /\ rate_limiter.adaptive
    /\ rate_limiter.rate_limit_info.requests_per_second = 3
    /\ rate_limiter.consecutive_rate_limits = 3
    /\ rate_limiter.token_bucket.refill_rate = 15360

(* C28: consecutive_rate_limits is never negative and counts the 429 replies
   the client has processed since its latest success: a step in which a 429
   arrives adds 1 to it, a step in which a success arrives sets it to 0, and
   no other step changes it. *)
C28_CountIsThrottlesSinceSuccess ==
    [][/\ rate_limiter'.consecutive_rate_limits >= 0
       /\ enable_rate_limiting =>
              rate_limiter'.consecutive_rate_limits =
                  IF \E t \in Requests : Succeeded(t) THEN 0
                  ELSE rate_limiter.consecutive_rate_limits
                           + Cardinality({t \in Requests :
                                 Replied(t) /\ IsThrottle(reply'[t])})]_vars

-----------------------------------------------------------------------------
(* get_stats() of the limiter and of the client, and a caller that writes into
   the dictionary it was given. A dictionary is modelled with the object it
   is: "self.stats" (the client's own dict) or "new". *)

\* a get_stats that hands out the client's own dictionary
copy_alias(d) == [obj |-> "self.stats", items |-> d]

\* dict.copy()
copy(d) == [obj |-> "new", items |-> d]

\* dict.update(e): the items of e are set in d
update(d, e) ==
    [k \in DOMAIN d \cup DOMAIN e |-> IF k \in DOMAIN e THEN e[k] ELSE d[k]]

\* RateLimiter.get_stats() at clock reading t: the dictionary it returns and
\* the limiter it leaves
RateLimiter_get_stats(L, t) ==
    LET recent_count ==
            Len(SelectSeq(L.recent_requests, LAMBDA req : t - req < 60 * TicksPerSecond))
    IN  [stats   |-> [requests_per_second        |-> L.rate_limit_info.requests_per_second,
                      current_rate               |-> L.token_bucket.refill_rate,
                      burst_limit                |-> L.rate_limit_info.burst_limit,
                      available_tokens           |-> L.token_bucket.tokens,
                      recent_requests_per_minute |-> recent_count,
                      consecutive_rate_limits    |-> L.consecutive_rate_limits,
                      remaining_requests         |-> L.rate_limit_info.remaining_requests],
         limiter |-> L]

\* BaseClient.get_stats(): the dictionary it returns, and self.stats and the
\* limiter as it leaves them
get_stats(S, limiter_on, L, t) ==
    LET d == copy(S)
        inner == RateLimiter_get_stats(L, t)
        merged == IF limiter_on THEN update(d.items, inner.stats) ELSE d.items
    IN  [returned |-> [obj |-> d.obj, items |-> merged],
         stats    |-> IF d.obj = "self.stats" THEN merged ELSE S,
         limiter  |-> IF limiter_on THEN inner.limiter ELSE L]

\* the caller calls client.get_stats() (a plain function: it runs between two
\* steps of the coroutines)
CallGetStats ==
    /\ LET g == get_stats(stats, enable_rate_limiting, rate_limiter, now)
       IN  /\ snapshot' = g.returned
           /\ stats' = g.stats
           /\ rate_limiter' = g.limiter
    /\ UNCHANGED <<now, enable_rate_limiting, max_retries, transport, start_at, pc,
                   attempt, wake, last_exception, result, reply, held, acquired, frame>>

\* the caller overwrites an entry of the dictionary get_stats() gave it
MutateSnapshot ==
    /\ snapshot.obj # "none"
    /\ \E k \in {"total_requests", "successful_requests"} :
          IF snapshot.obj = "self.stats"
          THEN /\ stats' = [stats EXCEPT ![k] = -1]
               /\ snapshot' = [snapshot EXCEPT !.items = stats']
          ELSE /\ snapshot' = [snapshot EXCEPT !.items[k] = -1]
               /\ stats' = stats
    /\ UNCHANGED <<now, rate_limiter, enable_rate_limiting, max_retries, transport,
                   start_at, pc, attempt, wake, last_exception, result, reply, held,
                   acquired, frame>>

\* three requests launched together, with or without a limiter, that succeed or
\* meet a server error
InitStats ==
    /\ rate_limiter = RateLimiter(1, 1, TRUE, 0)
    /\ enable_rate_limiting \in BOOLEAN
    /\ max_retries \in {0, 1}
    /\ transport \in {{Ok}, {ServerError500}}
    /\ InitRequests(BurstTasks, {0})

NextStats ==
    \/ Next
    \/ CallGetStats
    \/ MutateSnapshot

SpecStats == InitStats /\ [][NextStats]_vars

(* C22: a get_stats() call, and a write of the caller into the dictionary it
   returned, leave the bucket's tokens, last_refill and refill_rate, the
   consecutive_rate_limits count, the RateLimitInfo and every counter of
   self.stats as they were. *)
C22_GetStatsReadsOnly ==
    [][(snapshot' # snapshot) =>
          /\ rate_limiter'.token_bucket.tokens = rate_limiter.token_bucket.tokens
          /\ rate_limiter'.token_bucket.last_refill = rate_limiter.token_bucket.last_refill
          /\ rate_limiter'.token_bucket.refill_rate = rate_limiter.token_bucket.refill_rate
          /\ rate_limiter'.consecutive_rate_limits = rate_limiter.consecutive_rate_limits
          /\ rate_limiter'.rate_limit_info = rate_limiter.rate_limit_info
          /\ stats' = stats]_vars

\* the caller has overwritten total_requests in a dictionary that get_stats()
\* returned with the limiter's entries merged in, after one request was sent
C22_Witness ==
    /\ enable_rate_limiting
    /\ snapshot.obj # "none"
    /\ "current_rate" \in DOMAIN snapshot.items
    /\ snapshot.items.total_requests = -1
    /\ stats.total_requests = 1

-----------------------------------------------------------------------------
(* acquire() awaited to its end by a lone caller, over several minutes of a
   clock that only moves forward *)

\* acquire() called at clock reading t by the only coroutine there is: the
\* reading at which it returns (after its sleeps, if any) and the limiter it
\* leaves
acquire(L, t) ==
    LET c1 == consume(L.token_bucket, t, 1)
        w  == wait_time(c1.bucket, 1)
        c2 == consume(c1.bucket, t + w, 1)
        at == IF c1.ok \/ w = 0 THEN t
              ELSE IF c2.ok THEN t + w
              ELSE t + w + TicksPerSecond \div 10
        b  == IF c1.ok \/ w = 0 THEN c1.bucket ELSE c2.bucket
    IN  [now     |-> at,
         limiter |-> track_request([L EXCEPT !.token_bucket = b], at)]

CallAcquire ==
    /\ Len(acquired) < MaxAcquires
    /\ LET a == acquire(rate_limiter, now)
       IN  /\ now' = a.now
           /\ rate_limiter' = a.limiter
           /\ acquired' = Append(acquired, a.now)
    /\ UNCHANGED <<enable_rate_limiting, max_retries, stats, transport, start_at, pc,
                   attempt, wake, last_exception, result, reply, held, snapshot, frame>>

\* the caller stays idle for 20 seconds
ClockJump ==
    /\ now + 20 * TicksPerSecond <= MaxWindowClock * TicksPerSecond
    /\ now' = now + 20 * TicksPerSecond
    /\ UNCHANGED <<rate_limiter, clientVars>>

NextWindow ==
    \/ CallAcquire
    \/ ClockJump

SpecWindow == InitLimiter /\ [][NextWindow]_vars

(* C30: in the step in which an acquire() returns, at clock reading t (the
   clock moving forward only), the window recent_requests ends with t, every
   entry of it is less than 60 seconds older than t, and its length is the
   number of acquire() returns at readings less than 60 seconds before t. *)
C30_WindowIsLastMinute ==
    [][(acquired' # acquired) =>
          LET w == rate_limiter'.recent_requests
              t == now'
          IN  /\ Len(w) > 0
              /\ w[Len(w)] = t
              /\ \A i \in DOMAIN w : w[i] <= t /\ t - w[i] < 60 * TicksPerSecond
              /\ Len(w) = Cardinality({i \in DOMAIN acquired' :
                                          t - acquired'[i] < 60 * TicksPerSecond})]_vars

\* the fourth acquire() has returned two minutes after the first, exactly 60
\* seconds after the second and less than 60 seconds after the third: the
\* window holds the third and the fourth
C30_Witness ==
    /\ Len(acquired) = 4
    /\ acquired[4] = now
    /\ acquired[4] - acquired[1] = 120 * TicksPerSecond
    /\ acquired[4] - acquired[2] = 60 * TicksPerSecond
    /\ rate_limiter.recent_requests = <<acquired[3], acquired[4]>>

(* C32: within one logical request the attempts follow one another: the
   attempt number only ever grows by one, and it grows (the next attempt calls
   acquire()) only in a step taken from the backoff sleep of the previous
   attempt, once that sleep has ended and the previous attempt's transport
   call has given its reply; a transport call is started only while none of
   the same request is in flight. *)
C32_AttemptsAreSequential ==
    [][\A t \in Requests :
          /\ attempt'[t] # attempt[t] =>
                /\ attempt'[t] = attempt[t] + 1
                /\ pc[t] = "backoff"
                /\ wake[t] <= now
                /\ reply[t] # NoReply
          /\ Sent(t) => /\ pc[t] \in {"pending", "backoff", "acquire_wait", "acquire_fallback"}
                        /\ Calls(t)' = Calls(t) + 1]_vars

\* the third attempt of a request is in flight, two seconds or more after the
\* request was launched (the backoff sleeps of 1 and 2 seconds are over)
C32_Witness ==
    \E t \in Requests :
        /\ pc[t] = "in_flight"
        /\ attempt[t] = 2
        /\ reply[t] # NoReply
        /\ now >= start_at[t] + 3 * TicksPerSecond

(* C33: a limiter configured with a baseline of at least 1 request per second
   keeps the bucket's refill rate between 1 per second and the baseline,
   under every interleaving of throttling responses, successes and acquire()
   calls of concurrent requests. *)
C33_RateBetweenOneAndBaseline ==
    rate_limiter.rate_limit_info.requests_per_second >= 1 =>
        /\ RateScale <= rate_limiter.token_bucket.refill_rate
        /\ rate_limiter.token_bucket.refill_rate <= Baseline(rate_limiter)

\* two throttling responses in a row have brought a baseline of 1/s to the
\* floor: 1 * 0.8^2 = 0.64 < 1
C33_Witness ==
    /\ enable_rate_limiting
    /\ rate_limiter.rate_limit_info.requests_per_second = 1
    /\ rate_limiter.consecutive_rate_limits >= 2
    /\ rate_limiter.token_bucket.refill_rate = RateScale
    /\ stats.rate_limited_requests >= 2

(* C34: while the refill rate stays at r, the number of acquire() calls that
   have returned by clock reading t, to any number of concurrent callers, is
   at most capacity + r * t (the limiter having been created at reading 0). *)
C34_AdmissionsWithinBudget ==
    (enable_rate_limiting /\ rate_limiter.token_bucket.refill_rate = Baseline(rate_limiter)) =>
        Len(acquired) * TokenScale
            <= rate_limiter.token_bucket.capacity * TokenScale
                   + rate_limiter.token_bucket.refill_rate * now

\* the logical requests that have run to completion (returned or raised)
Completed == {t \in Requests : pc[t] = "done" /\ result[t].outcome \in {"return", "raise"}}

(* C35: a step changes successful_requests + failed_requests only when it
   delivers the outcome of a request, and then adds exactly 1 to exactly one of
   the two counters (a reply that is retried changes neither); hence in every
   state successful_requests + failed_requests is the number of completed
   requests and is at most total_requests - retried_requests. *)
C35_OneOutcomeCountPerRequest ==
    [][/\ \A t \in Requests :
             Replied(t) =>
                 IF pc'[t] = "done"
                 THEN /\ stats'.successful_requests + stats'.failed_requests
                             = stats.successful_requests + stats.failed_requests + 1
                      /\ stats'.successful_requests >= stats.successful_requests
                      /\ stats'.failed_requests >= stats.failed_requests
                 ELSE /\ stats'.successful_requests = stats.successful_requests
                      /\ stats'.failed_requests = stats.failed_requests
       /\ (\A t \in Requests : ~Replied(t)) =>
              /\ stats'.successful_requests = stats.successful_requests
              /\ stats'.failed_requests = stats.failed_requests
       /\ stats'.successful_requests + stats'.failed_requests = Cardinality(Completed')
       /\ stats'.successful_requests + stats'.failed_requests
              <= stats'.total_requests - stats'.retried_requests]_vars

\* one request has succeeded at its first attempt and the other has failed
\* after a retry
C35_Witness ==
    /\ Requests = Completed
    /\ Cardinality(Requests) = 2
    /\ stats.successful_requests = 1
    /\ stats.failed_requests = 1
    /\ stats.retried_requests >= 1

-----------------------------------------------------------------------------
(* The requests of Spec under a scheduler that lets time pass, completes every
   transport call and ends every sleep *)

\* the end of the earliest pending sleep, launch or transport call
NextTimer ==
    LET timers == {wake[t] : t \in {u \in DOMAIN pc : pc[u] \in Sleeping \cup {"in_flight"}}}
                    \cup {start_at[t] : t \in {u \in DOMAIN pc : pc[u] = "pending"}}
    IN  CHOOSE x \in timers : \A y \in timers : x <= y

\* past MaxTime seconds nothing is observed between two timers: time passes
\* up to the next one
Elapse ==
    /\ \A t \in DOMAIN pc : ~Due(t)
    /\ \E t \in DOMAIN pc : pc[t] # "done"
    /\ NextInstant > MaxTime * TicksPerSecond
    /\ now' = NextTimer
    /\ UNCHANGED <<rate_limiter, clientVars>>

NextFair ==
    \/ Next
    \/ Elapse

Fairness ==
    /\ WF_vars(Tick)
    /\ WF_vars(Elapse)
    /\ \A t \in Tasks :
          /\ WF_vars(Begin(t))
          /\ WF_vars(AcquireWake(t))
          /\ WF_vars(FallbackWake(t))
          /\ WF_vars(Respond(t))
          /\ WF_vars(BackoffWake(t))

SpecFair == Init /\ [][NextFair]_vars /\ Fairness

(* C36: whatever the transport answers (success, 4xx, 429, 5xx, connection
   failure or another exception, in any sequence), a logical request starts at
   most max_retries + 1 transport calls, and when every transport call and
   every sleep completes, execute() eventually returns or raises for every
   request. *)
C36_BoundedCallsAndTermination ==
    /\ [](\A t \in Requests : Calls(t) <= max_retries + 1)
    /\ <>(\A t \in Requests : pc[t] = "done" /\ result[t].outcome \in {"return", "raise"})

\* a request has raised after max_retries + 1 = 3 transport calls
C36_Witness ==
    \E t \in Requests :
        /\ max_retries = 2
        /\ pc[t] = "done"
        /\ result[t].outcome = "raise"
        /\ Calls(t) = 3

\* the bucket is as the task waiting in acquire() left it when it estimated
\* its wait: no consume() has run since (last_refill is that of the task's own
\* failed consume) and the estimate from its balance and rate is still the
\* task's sleep
Undisturbed(t) ==
    wake[t] = rate_limiter.token_bucket.last_refill
                  + wait_time(rate_limiter.token_bucket, 1)

(* C37: when the sleep of wait_time(1) of a task in acquire() ends and neither
   another consumer nor a rate change has touched the bucket meanwhile, the
   second consume(1) succeeds and acquire() returns at once; the 100 ms
   fallback sleep is entered only when the bucket is no longer as the task
   left it. *)
C37_RetryAfterWaitSucceeds ==
    [][\A t \in Requests :
          (pc[t] = "acquire_wait" /\ pc'[t] \in {"in_flight", "acquire_fallback"}
             /\ Undisturbed(t)) =>
              /\ pc'[t] = "in_flight"
              /\ acquired' = Append(acquired, wake[t])]_vars

\* a request launched at 0 found the bucket emptied by another at 0, slept
\* one second and was admitted at its second consume, the other having ended
C37_Witness ==
    \E t \in Requests, u \in Requests :
        /\ enable_rate_limiting
        /\ start_at[t] = 0 /\ start_at[u] = 0
        /\ pc[u] = "done"
        /\ pc[t] = "in_flight" /\ attempt[t] = 0
        /\ now = TicksPerSecond
        /\ acquired = <<0, TicksPerSecond>>
        /\ rate_limiter.token_bucket.tokens = 0

(* C38: reset_rate_limit_tracking() and a successful response without a
   retry-after header leave rate_limit_info.retry_after as it is, and as long
   as a non-zero value is stored there, handle_rate_limit_response() called
   without a hint returns that value, not the exponential backoff. *)
C38_StoredRetryAfterOutlivesRecovery ==
    [][LET stored == rate_limiter.rate_limit_info.retry_after
           stored_after == rate_limiter'.rate_limit_info.retry_after
       IN  /\ rate_limiter' = reset_rate_limit_tracking(rate_limiter) =>
                  stored_after = stored
           /\ \A t \in Requests :
                  (enable_rate_limiting /\ Succeeded(t)
                     /\ reply'[t].headers.retry_after = Absent) =>
                      stored_after = stored
           /\ Truthy(stored_after) =>
                  handle_rate_limit_response(rate_limiter', None).wait_time
                      = stored_after[1]]_vars

\* a retry-after of 5 was stored, two throttling responses followed, and the
\* count has been reset: the 5 is still stored
C38_Witness ==
    /\ rate_limiter.adaptive
    /\ rate_limiter.rate_limit_info.retry_after = Some(5)
    /\ rate_limiter.rate_limit_info.remaining_requests = Some(7)
    /\ rate_limiter.consecutive_rate_limits = 0
    /\ handle_rate_limit_response(rate_limiter, None).wait_time = 5

(* C40: with adaptive mode off, update_from_response() changes no field of
   RateLimitInfo and no handle_rate_limit_response() or
   reset_rate_limit_tracking() call moves the refill rate away from the
   baseline, while handle_rate_limit_response() still adds 1 to
   consecutive_rate_limits and returns its wait (the hint when it is non-zero,
   else min(60, 2^count)). *)
C40_NonAdaptiveLimiterOnlyCounts ==
    [][~rate_limiter.adaptive =>
          /\ rate_limiter'.rate_limit_info = rate_limiter.rate_limit_info
          /\ rate_limiter'.token_bucket.refill_rate = Baseline(rate_limiter)
          /\ \A h \in HeaderMenu : update_from_response(rate_limiter, h) = rate_limiter
          /\ \A hint \in Hints :
                LET p == handle_rate_limit_response(rate_limiter, hint)
                IN  /\ p.limiter.consecutive_rate_limits
                           = rate_limiter.consecutive_rate_limits + 1
                    /\ p.limiter.token_bucket.refill_rate = Baseline(rate_limiter)
                    /\ p.wait_time = IF Truthy(hint) THEN hint[1]
                                     ELSE Backoff(rate_limiter.consecutive_rate_limits + 1)]_vars

\* a limiter that is not adaptive has counted three throttling responses in a
\* row at the baseline rate
C40_Witness ==
    /\ ~rate_limiter.adaptive
    /\ rate_limiter.consecutive_rate_limits = 3
    /\ rate_limiter.rate_limit_info.requests_per_second = 3
    /\ rate_limiter.token_bucket.refill_rate = Baseline(rate_limiter)

\* the exception raised inside the try body of attempt a by what follows reply
\* r (NoExc: none is raised), connect and timeout failures apart
RaisedInAttempt(r, a) ==
    IF r.kind = "other_error" THEN PyExc("Exception")
    ELSE IF r.kind # "response" \/ is_success(r.status) THEN NoExc
    ELSE IF r.status = 429 /\ enable_rate_limiting
         THEN IF r.headers.retry_after = BadHeader THEN PyExc("ValueError")
              ELSE IF a < max_retries THEN NoExc
              ELSE handle_response_error(r)
    ELSE IF 500 <= r.status /\ r.status < 600 /\ a < max_retries THEN NoExc
    ELSE handle_response_error(r)

(* C39: an exception raised during an attempt that is neither a connect or
   timeout failure nor a RateLimitError, AuthenticationError, ValidationError
   or QuotaExceededError is followed, while attempts remain, by a sleep of
   min(60, 2^attempt) seconds that leaves failed_requests alone; at the last
   attempt the request ends with a ThrivingAPIError whose message starts
   with "Unexpected error", and failed_requests grows by exactly 1. *)
C39_OtherExceptionsRetriedThenWrapped ==
    [][\A t \in Requests :
          LET e == RaisedInAttempt(reply'[t], attempt[t])
          IN  (Replied(t) /\ e # NoExc /\ e.cls \notin NoRetry) =>
                  /\ attempt[t] < max_retries =>
                         /\ pc'[t] = "backoff"
                         /\ wake'[t] = now + Backoff(attempt[t]) * TicksPerSecond
                         /\ stats'.failed_requests = stats.failed_requests
                  /\ attempt[t] >= max_retries =>
                         /\ attempt[t] = max_retries
                         /\ pc'[t] = "done"
                         /\ result'[t].outcome = "raise"
                         /\ result'[t].exc.cls = "ThrivingAPIError"
                         /\ result'[t].exc.message = "Unexpected error"
                         /\ stats'.failed_requests = stats.failed_requests + 1]_vars

\* a request whose transport raised an exception other than a connect or
\* timeout failure three times has ended with the wrapped generic error, 1 + 2
\* seconds after its launch
C39_Witness ==
    \E t \in Requests :
        /\ max_retries = 2
        /\ pc[t] = "done"
        /\ attempt[t] = 2
        /\ reply[t].kind = "other_error"
        /\ result[t].exc = UnexpectedError
        /\ now = start_at[t] + 3 * TicksPerSecond
        /\ stats.failed_requests >= 1

-----------------------------------------------------------------------------
(* The limiter called from two threads.  A method takes its threading.Lock,
   runs its body and releases the lock; a thread switch may fall between any
   two of these steps, and inside consume() between the evaluation of
   self.tokens + elapsed * self.refill_rate and the store to self.tokens. *)

Threads == {1, 2}

\* no other thread holds lock l
Free(l, t) == \A u \in Threads \ {t} : l \notin held[u]

\* `with self._lock:` of the method that brings thread t to position p
Enter(t, l, p) ==
    /\ pc[t] = "idle"
    /\ Free(l, t)
    /\ pc' = [pc EXCEPT ![t] = p]
    /\ held' = [held EXCEPT ![t] = @ \cup {l}]

\* the end of the `with` block of thread t
Leave(t, l) ==
    /\ pc' = [pc EXCEPT ![t] = "idle"]
    /\ held' = [held EXCEPT ![t] = @ \ {l}]

\* TokenBucket.consume(): `with self._lock:`
ConsumeEnter(t) ==
    /\ Enter(t, "token_bucket._lock", "consume_locked")
    /\ UNCHANGED <<now, rate_limiter, frame>>

\* TokenBucket.consume(): self.refill_rate is loaded
ConsumeRead(t) ==
    /\ pc[t] = "consume_locked"
    /\ frame' = [frame EXCEPT ![t] = rate_limiter.token_bucket.refill_rate]
    /\ pc' = [pc EXCEPT ![t] = "consume_read"]
    /\ UNCHANGED <<now, rate_limiter, held>>

\* TokenBucket.consume(): self.tokens and self.last_refill are stored, from
\* the rate that was loaded, and the lock is released
ConsumeWrite(t) ==
    /\ pc[t] = "consume_read"
    /\ LET b == rate_limiter.token_bucket
           c == consume([b EXCEPT !.refill_rate = frame[t]], now, 1)
       IN  rate_limiter' = [rate_limiter EXCEPT
                               !.token_bucket.tokens = c.bucket.tokens,
                               !.token_bucket.last_refill = c.bucket.last_refill]
    /\ Leave(t, "token_bucket._lock")
    /\ UNCHANGED <<now, frame>>

\* RateLimiter.handle_rate_limit_response(): `with self._lock:`
PenalizeEnter(t) ==
    /\ rate_limiter.consecutive_rate_limits < MaxThrottle
    /\ Enter(t, "rate_limiter._lock", "penalize_locked")
    /\ UNCHANGED <<now, rate_limiter, frame>>

\* RateLimiter.handle_rate_limit_response(): the body of the `with` block
PenalizeWrite(t) ==
    /\ pc[t] = "penalize_locked"
    /\ rate_limiter' = handle_rate_limit_response(rate_limiter, None).limiter
    /\ Leave(t, "rate_limiter._lock")
    /\ UNCHANGED <<now, frame>>

\* RateLimiter.reset_rate_limit_tracking(): `with self._lock:`
ResetEnter(t) ==
    /\ Enter(t, "rate_limiter._lock", "reset_locked")
    /\ UNCHANGED <<now, rate_limiter, frame>>

\* RateLimiter.reset_rate_limit_tracking(): the body of the `with` block
ResetWrite(t) ==
    /\ pc[t] = "reset_locked"
    /\ rate_limiter' = reset_rate_limit_tracking(rate_limiter)
    /\ Leave(t, "rate_limiter._lock")
    /\ UNCHANGED <<now, frame>>

ThreadStep(t) ==
    /\ \/ ConsumeEnter(t)
       \/ ConsumeRead(t)
       \/ ConsumeWrite(t)
       \/ PenalizeEnter(t)
       \/ PenalizeWrite(t)
       \/ ResetEnter(t)
       \/ ResetWrite(t)
    /\ UNCHANGED <<enable_rate_limiting, max_retries, stats, transport, start_at,
                   attempt, wake, last_exception, result, reply, snapshot, acquired>>

InitThreads ==
    /\ now = 0
    /\ \E cfg \in LimiterConfigs : rate_limiter = RateLimiter(cfg[1], cfg[2], TRUE, 0)
    /\ enable_rate_limiting = TRUE
    /\ max_retries = 0
    /\ stats = NewStats
    /\ transport = {}
    /\ start_at = NoRequests
    /\ pc = [t \in Threads |-> "idle"]
    /\ attempt = NoRequests
    /\ wake = NoRequests
    /\ last_exception = NoRequests
    /\ result = NoRequests
    /\ reply = NoRequests
    /\ held = [t \in Threads |-> {}]
    /\ snapshot = NoSnapshot
    /\ acquired = <<>>
    /\ frame = [t \in Threads |-> 0]

NextThreads ==
    \/ \E t \in Threads : ThreadStep(t)
    \/ ClockAdvance

SpecThreads == InitThreads /\ [][NextThreads]_vars

(* C31: every step that changes the bucket's refill_rate is taken by a thread
   that holds the bucket's lock, the one under which consume() reads the rate
   and stores tokens and last_refill; so the rate never changes while another
   thread is inside consume() between its read of the rate and its store. *)
C31_RateWrittenUnderBucketLock ==
    [][(rate_limiter'.token_bucket.refill_rate # rate_limiter.token_bucket.refill_rate) =>
          /\ \E t \in Threads :
                /\ pc[t] \in {"penalize_locked", "reset_locked"}
                /\ "token_bucket._lock" \in held[t]
          /\ \A u \in Threads : pc[u] # "consume_read"]_vars

====
